---- MODULE Spec2Model ----
(***************************************************************************)
(* RealRIRs: the dataset abstraction of realrirs/base.py and the dataset   *)
(* adapters of realrirs/datasets.py, as a state machine.  One dataset      *)
(* instance (its class, its constructor arguments, its memoized File List  *)
(* and Index, its Decode Cache) lives over a file tree that may change     *)
(* between calls; every public operation is one action.                    *)
(***************************************************************************)
EXTENDS Integers, Sequences, FiniteSets, TLC

VARIABLES
    cls,          \* the dataset class of the instance
    root,         \* self.root, a path (sequence of components)
    use_memmap,   \* self.use_memmap (BinaryArrayDataset.__init__)
    missing,      \* the optional libraries that are not installed
    root_exists,  \* whether the root directory exists
    fs,           \* the file tree under the root: relative path -> content
    _files_list,  \* self._files_list, or Unset while the attribute is missing
    _irs_list,    \* self._irs_list, or Unset while the attribute is missing
    cache,        \* CacheMixin.__cache: key -> [id, val]
    nobj,         \* identities handed out to objects created so far
    n_list_files, \* how often _list_files has run
    n_list_irs,   \* how often _list_irs has run
    n_compute,    \* per cache key, how often cached() invoked its compute
    n_open,       \* per container file, how often _get_ir has loaded it
    ncalls,       \* public calls made so far
    nchanges,     \* changes made to the file tree so far
    ret           \* the last call: operation, argument, outcome

vars == <<cls, root, use_memmap, missing, root_exists, fs, _files_list,
          _irs_list, cache, nobj, n_list_files, n_list_irs, n_compute, n_open,
          ncalls, nchanges, ret>>

----------------------------------------------------------------------------
(* Bounds of the model.                                                    *)

MaxCalls == 2
MaxChanges == 1

----------------------------------------------------------------------------
(* Strings.  TLA+ strings are atomic, so every path component and every    *)
(* glob pattern component is spelled out; comparison and fnmatch work on   *)
(* the spelling.                                                           *)

Chars(s) ==
    CASE s = "data"      -> <<"d","a","t","a">>
      [] s = "examples"  -> <<"e","x","a","m","p","l","e","s">>
      [] s = "x"         -> <<"x">>
      [] s = "a.wav"     -> <<"a",".","w","a","v">>
      [] s = "b.wav"     -> <<"b",".","w","a","v">>
      [] s = "a.flac"    -> <<"a",".","f","l","a","c">>
      [] s = "b.mat"     -> <<"b",".","m","a","t">>
      [] s = "m.mat"     -> <<"m",".","m","a","t">>
      [] s = "n.mat"     -> <<"n",".","m","a","t">>
      [] s = "lab_brirs.mat" ->
            <<"l","a","b","_","b","r","i","r","s",".","m","a","t">>
      [] s = "reha_brirs.mat" ->
            <<"r","e","h","a","_","b","r","i","r","s",".","m","a","t">>
      [] s = "tvstudio_brirs.mat" ->
            <<"t","v","s","t","u","d","i","o","_","b","r","i","r","s",
              ".","m","a","t">>
      [] s = "IR_00.mat"  -> <<"I","R","_","0","0",".","m","a","t">>
      [] s = "IR_43.mat"  -> <<"I","R","_","4","3",".","m","a","t">>
      [] s = "IR_100.mat" -> <<"I","R","_","1","0","0",".","m","a","t">>
      [] s = "near"      -> <<"n","e","a","r">>
      [] s = "rsp1"      -> <<"r","s","p","1">>
      [] s = "r0"        -> <<"r","0">>
      [] s = "micarray"  -> <<"m","i","c","a","r","r","a","y">>
      [] s = "imp1.a"    -> <<"i","m","p","1",".","a">>
      [] s = "IoSR_ListeningRoom_BRIRs.sofa" ->
            <<"I","o","S","R","_","L","i","s","t","e","n","i","n","g",
              "R","o","o","m","_","B","R","I","R","s",".","s","o","f","a">>
      [] s = "*"         -> <<"*">>
      [] s = "**"        -> <<"*","*">>
      [] s = "*.wav"     -> <<"*",".","w","a","v">>
      [] s = "*.flac"    -> <<"*",".","f","l","a","c">>
      [] s = "*.mat"     -> <<"*",".","m","a","t">>
      [] s = "rsp*"      -> <<"r","s","p","*">>
      [] s = "imp*.*"    -> <<"i","m","p","*",".","*">>

\* The characters in use, in code point order (str comparison is by code point).
Alphabet ==
    <<"*", ".", "0", "1", "3", "4", "B", "I", "L", "R", "S", "_",
      "a", "b", "c", "d", "e", "f", "g", "h", "i", "l", "m", "n", "o", "p",
      "r", "s", "t", "u", "v", "w", "x", "y">>

Ord(c) == CHOOSE i \in 1..Len(Alphabet) : Alphabet[i] = c

\* Python's sequence "<": the first differing element decides, and a proper
\* prefix is smaller.  On str the elements are code points.
RECURSIVE CharsLess(_, _)
CharsLess(a, b) ==
    IF a = <<>> THEN b # <<>>
    ELSE IF b = <<>> THEN FALSE
    ELSE IF Head(a) # Head(b) THEN Ord(Head(a)) < Ord(Head(b))
    ELSE CharsLess(Tail(a), Tail(b))

StrLess(s, t) == CharsLess(Chars(s), Chars(t))

\* fnmatch.fnmatchcase restricted to literal characters and "*".
RECURSIVE fnmatchChars(_, _)
fnmatchChars(n, p) ==
    IF p = <<>> THEN n = <<>>
    ELSE IF Head(p) = "*"
         THEN fnmatchChars(n, Tail(p))
              \/ (n # <<>> /\ fnmatchChars(Tail(n), p))
    ELSE n # <<>> /\ Head(n) = Head(p) /\ fnmatchChars(Tail(n), Tail(p))

fnmatch(name, pat) == fnmatchChars(Chars(name), Chars(pat))

----------------------------------------------------------------------------
(* Paths (pathlib).  A path is the sequence of its components; a glob      *)
(* pattern is the sequence of its component patterns.                      *)

\* PurePath.__lt__: the component lists compare as Python lists of str.
RECURSIVE PathLess(_, _)
PathLess(p, q) ==
    IF p = <<>> THEN q # <<>>
    ELSE IF q = <<>> THEN FALSE
    ELSE IF Head(p) # Head(q) THEN StrLess(Head(p), Head(q))
    ELSE PathLess(Tail(p), Tail(q))

\* sorted() of a collection of distinct paths.
RECURSIVE sorted(_)
sorted(S) ==
    IF S = {} THEN <<>>
    ELSE LET m == CHOOSE p \in S : \A q \in S \ {p} : PathLess(p, q)
         IN  <<m>> \o sorted(S \ {m})

\* PurePath.match with a relative pattern: the pattern's components are
\* matched against the path's last components, from the right.
match(path, pat) ==
    /\ Len(pat) <= Len(path)
    /\ \A i \in 1..Len(pat) :
          fnmatch(path[Len(path) - Len(pat) + i], pat[i])

\* Whether the relative path rel is selected by a glob pattern: "**" stands
\* for any number of directories, any other component for one component.
RECURSIVE GlobSelects(_, _)
GlobSelects(rel, pat) ==
    IF pat = <<>> THEN rel = <<>>
    ELSE IF Head(pat) = "**"
         THEN \E k \in 0..Len(rel) :
                 GlobSelects(SubSeq(rel, k + 1, Len(rel)), Tail(pat))
    ELSE /\ rel # <<>>
         /\ fnmatch(Head(rel), Head(pat))
         /\ GlobSelects(Tail(rel), Tail(pat))

Absent == [k |-> "absent"]

\* Path.glob(pattern) on the root directory r over the file tree t: a root
\* that is no directory has no matches.
glob(r, t, pat) ==
    IF ~root_exists THEN {}
    ELSE {r \o rel :
            rel \in {x \in DOMAIN t : t[x] # Absent /\ GlobSelects(x, pat)}}

----------------------------------------------------------------------------
(* The dataset classes modelled, and their class attributes.               *)

Classes ==
    {"WavDataset", "FlacDataset", "OpenAIRDataset", "FOAIRDataset",
     "KEMARDataset", "MIRDDataset", "TUIInEarBehindEarDataset",
     "BellVarechoicDataset", "IOSRListeningRoomsDataset", "RWCPDataset"}

\* The classes that inherit CacheMixin.
CachingClasses == {"FOAIRDataset", "IOSRListeningRoomsDataset"}

\* The classes that override _getall.
BatchedClasses == {"KEMARDataset", "MIRDDataset", "TUIInEarBehindEarDataset"}

file_patterns(c) ==
    CASE c \in {"WavDataset", "OpenAIRDataset"} -> << <<"**", "*.wav">> >>
      [] c = "FlacDataset" -> << <<"**", "*.flac">> >>
      [] c = "FOAIRDataset" -> << <<"**", "*.mat">>, <<"**", "*.wav">> >>
      [] c \in {"KEMARDataset", "MIRDDataset"} -> << <<"**", "*.mat">> >>
      [] c = "TUIInEarBehindEarDataset" ->
            << <<"lab_brirs.mat">>, <<"reha_brirs.mat">>,
               <<"tvstudio_brirs.mat">> >>
      [] c = "IOSRListeningRoomsDataset" ->
            << <<"IoSR_ListeningRoom_BRIRs.sofa">> >>
      [] c = "RWCPDataset" ->
            << <<"near", "data", "rsp*", "*">>,
               <<"micarray", "**", "imp*.*">> >>

exclude_patterns(c) ==
    IF c = "OpenAIRDataset" THEN << <<"examples", "*">> >> ELSE <<>>

\* FileIRDataset._list_files: for each include pattern in turn, its sorted
\* matches that no exclude pattern matches.
RECURSIVE ScanPatterns(_, _, _, _)
ScanPatterns(pats, excl, r, t) ==
    IF pats = <<>> THEN <<>>
    ELSE LET kept(f) == ~ \E i \in 1..Len(excl) : match(f, excl[i])
         IN  SelectSeq(sorted(glob(r, t, Head(pats))), kept)
             \o ScanPatterns(Tail(pats), excl, r, t)

\* _list_files of class c on root r over the file tree t
\* (BellVarechoicDataset overrides it with three fixed paths).
_list_files(c, r, t) ==
    IF c = "BellVarechoicDataset"
    THEN <<r \o <<"IR_00.mat">>, r \o <<"IR_43.mat">>, r \o <<"IR_100.mat">>>>
    ELSE ScanPatterns(file_patterns(c), exclude_patterns(c), r, t)

----------------------------------------------------------------------------
(* File contents, as far as the format libraries expose them.              *)

\* A file that no decoder can read.
Bad == [k |-> "bad"]
\* An audio file: channels, frames, sample rate.
WavFile(ch, n) == [k |-> "wav", ch |-> ch, n |-> n, sr |-> 16000]
\* A MATLAB file whose variables IR_L and IR_R (in this order) are matrices
\* of shapes (rows, cols) and (rowsR, cols).
MatLR(rows, rowsR, cols) ==
    [k |-> "matLR", rows |-> rows, rowsR |-> rowsR, cols |-> cols]
\* A MATLAB file whose one matrix has shape (rows, cols).
Mat(rows, cols) == [k |-> "mat", rows |-> rows, cols |-> cols]
\* A MATLAB file whose brirData.impulseResponse lists (label, ir) pairs,
\* each ir of shape (rows, 2).
Brir(labels, rows) == [k |-> "brir", labels |-> labels, rows |-> rows]
\* A MATLAB file whose struct holds inear and btear, each with left and
\* right arrays of shape (nidx, n).
Tui(nidx, n) == [k |-> "tui", nidx |-> nidx, n |-> n]
\* A SOFA file with M measurements, R receivers, N samples.
Sofa(M, R, N) == [k |-> "sofa", M |-> M, R |-> R, N |-> N]
\* A headerless file of size bytes.
Raw(size) == [k |-> "raw", size |-> size]

surround_types == <<"L", "LS", "R", "RS", "C", "S">>

\* The files that may exist under the root of a dataset of class c, each
\* with the contents it may have.
FileChoices(c) ==
    CASE c = "WavDataset" ->
            (<<"a.wav">> :> {WavFile(1, 3), WavFile(12, 3), Bad})
            @@ (<<"x", "b.wav">> :> {WavFile(2, 3)})
      [] c = "FlacDataset" ->
            (<<"a.flac">> :> {WavFile(2, 3), Bad})
      [] c = "OpenAIRDataset" ->
            (<<"a.wav">> :> {WavFile(2, 3)})
            @@ (<<"examples", "b.wav">> :> {WavFile(2, 3)})
      [] c = "FOAIRDataset" ->
            (<<"b.mat">> :> {MatLR(3, 3, 2), MatLR(3, 2, 2)})
            @@ (<<"a.wav">> :> {WavFile(4, 3), WavFile(1, 3)})
      [] c = "KEMARDataset" ->
            (<<"m.mat">> :> {Brir(surround_types, 96000),
                             Brir(<<"R", "L">>, 96000)})
      [] c = "MIRDDataset" ->
            (<<"m.mat">> :> {Mat(480000, 8), Mat(480000, 3)})
            @@ (<<"x", "n.mat">> :> {Mat(480000, 8)})
      [] c = "TUIInEarBehindEarDataset" ->
            (<<"lab_brirs.mat">> :> {Tui(32, 22050)})
            @@ (<<"reha_brirs.mat">> :> {Tui(32, 44100)})
            @@ (<<"tvstudio_brirs.mat">> :> {Tui(32, 22050)})
      [] c = "BellVarechoicDataset" ->
            (<<"IR_00.mat">> :> {Mat(8192, 4)})
            @@ (<<"IR_43.mat">> :> {Mat(8192, 4)})
            @@ (<<"IR_100.mat">> :> {Mat(8192, 4)})
      [] c = "IOSRListeningRoomsDataset" ->
            (<<"IoSR_ListeningRoom_BRIRs.sofa">> :> {Sofa(2, 2, 3), Bad})
      [] c = "RWCPDataset" ->
            (<<"near", "data", "rsp1", "r0">> :> {Raw(8), Raw(9)})
            @@ (<<"micarray", "x", "imp1.a">> :> {Raw(12)})

\* The root directories a dataset of class c may be given: only the scan of
\* a class with exclude patterns tells the name of the root.
Roots(c) ==
    IF exclude_patterns(c) # <<>> THEN {<<"data">>, <<"examples">>}
    ELSE {<<"data">>}

\* The file trees a dataset of class c may find.
Trees(c) ==
    {t \in [DOMAIN FileChoices(c) ->
               UNION {FileChoices(c)[p] : p \in DOMAIN FileChoices(c)}
               \cup {Absent}] :
        \A p \in DOMAIN t : t[p] \in FileChoices(c)[p] \cup {Absent}}

\* What is stored at path f, for a dataset rooted at r over the tree t.
At(r, t, f) ==
    IF /\ Len(f) > Len(r)
       /\ SubSeq(f, 1, Len(r)) = r
       /\ SubSeq(f, Len(r) + 1, Len(f)) \in DOMAIN t
    THEN t[SubSeq(f, Len(r) + 1, Len(f))]
    ELSE Absent

----------------------------------------------------------------------------
(* Values.                                                                 *)

\* The outcome of a computation: a value, or the exception it raised.
Ok(v) == [ok |-> TRUE, val |-> v, err |-> "none"]
Raise(e) == [ok |-> FALSE, val |-> <<>>, err |-> e]

\* Python numbers: an int n, and the float a / b that true division gives
\* (whole + frac / b).
PyInt(n) == [whole |-> n, frac |-> 0, den |-> 1]
TrueDiv(a, b) == [whole |-> a \div b, frac |-> a % b, den |-> b]
IsIntegral(x) == x.frac = 0

\* range(n), as the sequence 0, ..., n - 1.
range(n) == [i \in 1..n |-> i - 1]

\* An item name (a path, or a tuple that starts with a path) and an Index
\* record (name, nchan, nsamples, sr).
Name(f, sub) == [f |-> f, sub |-> sub]
Rec(name, ch, n, sr) == [name |-> name, ch |-> ch, n |-> n, sr |-> sr]

\* An array of the given shape; a Python tuple of values.
Arr(shape) == [t |-> "arr", shape |-> shape]
Tup(items) == [t |-> "tuple", items |-> items]

----------------------------------------------------------------------------
(* datasets.py: the optional libraries.  The module binds the name of a    *)
(* library that cannot be imported to a DelayedImportError, whose every    *)
(* attribute access raises ImportError with the library's name.            *)

Libs == {"scipy", "soundfile", "pysofaconventions", "librosa"}

\* ImportError("Please install <l> to perform this operation.")
ImportError(l) ==
    CASE l = "scipy" -> "ImportError: scipy"
      [] l = "soundfile" -> "ImportError: soundfile"
      [] l = "pysofaconventions" -> "ImportError: pysofaconventions"
      [] l = "librosa" -> "ImportError: librosa"

\* A placeholder whose attribute access returns None: the call of the
\* attribute then raises TypeError.
LibNoRaise(l, r) == IF l \in missing THEN Raise("TypeError") ELSE r

\* An attribute of the library l is looked up and called; r is what the
\* call gives when the library is installed.
Lib(l, r) == IF l \in missing THEN Raise(ImportError(l)) ELSE r

----------------------------------------------------------------------------
(* base.py: shape and check_nonmono.                                       *)

\* The channel threshold of check_nonmono.
MaxChannels == 10

\* shape(things): the .shape of an array; of anything else, the number of
\* its items followed by their one common shape.
RECURSIVE shape(_)
shape(x) ==
    IF x.t = "arr" THEN Ok(x.shape)
    ELSE LET shapes == [i \in 1..Len(x.items) |-> shape(x.items[i])]
         IN  IF \E i \in 1..Len(shapes) : ~shapes[i].ok
             THEN shapes[CHOOSE i \in 1..Len(shapes) :
                            /\ ~shapes[i].ok
                            /\ \A j \in 1..(i - 1) : shapes[j].ok]
             ELSE IF Cardinality({shapes[i].val : i \in 1..Len(shapes)}) # 1
             THEN Raise("AssertionError")
             ELSE Ok(<<Len(shapes)>> \o shapes[1].val)

\* A check_nonmono that accepts every buffer.
check_nonmonoLax(x) == Ok(<<>>)

\* check_nonmono(x): returns, or raises AssertionError.
check_nonmono(x) ==
    LET sh == shape(x)
    IN  IF ~sh.ok THEN sh
        ELSE IF Len(sh.val) = 2 /\ sh.val[1] < MaxChannels THEN Ok(<<>>)
        ELSE Raise("AssertionError")

----------------------------------------------------------------------------
(* datasets.py: the metadata probes and _list_irs of each class.           *)

\* np.dtype("float32").itemsize
itemsize == 4

\* _soundfile_info on a file with content x: (channels, frames, samplerate).
_soundfile_info(x) ==
    Lib("soundfile",
        IF x.k = "wav" THEN Ok(<<x.ch, x.n, x.sr>>) ELSE Raise("RuntimeError"))

\* The first error of a sequence of outcomes, or their values concatenated.
RECURSIVE Collect(_)
Collect(rs) ==
    IF rs = <<>> THEN Ok(<<>>)
    ELSE IF ~Head(rs).ok THEN Head(rs)
    ELSE LET rest == Collect(Tail(rs))
         IN  IF rest.ok THEN Ok(Head(rs).val \o rest.val) ELSE rest

\* The records that _list_irs of class c makes of the one file f, whose
\* content is x.
FileRecords(c, f, x) ==
    CASE c \in {"WavDataset", "OpenAIRDataset"} ->
            LET i == _soundfile_info(x)
            IN  IF i.ok
                THEN Ok(<<Rec(Name(f, <<>>), i.val[1], PyInt(i.val[2]), i.val[3])>>)
                ELSE i
      [] c = "FlacDataset" ->
            \* _audioread_info: (channels, duration * samplerate, samplerate)
            Lib("librosa",
                IF x.k = "wav"
                THEN Ok(<<Rec(Name(f, <<>>), x.ch, PyInt(x.n), x.sr)>>)
                ELSE Raise("NoBackendError"))
      [] c = "FOAIRDataset" ->
            IF match(f, <<"*.mat">>)
            THEN \* whosmat(f)[0] is (name, (n_samples, n_irs), dtype)
                 Lib("scipy",
                     IF x.k = "matLR"
                     THEN Ok([j \in 1..x.cols |->
                                Rec(Name(f, <<j - 1>>), 2, PyInt(x.rows), 48000)])
                     ELSE Raise("OSError"))
            ELSE LET i == _soundfile_info(x)
                 IN  IF i.ok
                     THEN Ok(<<Rec(Name(f, <<-1>>), i.val[1], PyInt(i.val[2]),
                                   i.val[3])>>)
                     ELSE i
      [] c = "KEMARDataset" ->
            Ok([j \in 1..Len(surround_types) |->
                  Rec(Name(f, <<surround_types[j]>>), 2, PyInt(96000), 48000)])
      [] c = "MIRDDataset" ->
            Ok([j \in 1..8 |-> Rec(Name(f, <<range(8)[j]>>), 1, PyInt(480000), 48000)])
      [] c = "IOSRListeningRoomsDataset" ->
            Lib("pysofaconventions",
                IF x.k = "sofa"
                THEN Ok([j \in 1..x.M |->
                           Rec(Name(f, <<range(x.M)[j]>>), x.R, PyInt(x.N),
                               48000)])
                ELSE Raise("OSError"))
      [] c = "RWCPDataset" ->
            IF x.k = "raw"
            THEN Ok(<<Rec(Name(f, <<>>), 1, TrueDiv(x.size, itemsize), 48000)>>)
            ELSE Raise("FileNotFoundError")

\* TUIInEarBehindEarDataset: (t, i) for t in [inear, btear] for i in range(32)
cfgs == [j \in 1..64 |-> <<IF j <= 32 THEN "inear" ELSE "btear", (j - 1) % 32>>]

\* _list_irs of class c, given self.list_files() = files.
_list_irs(c, files, r, t) ==
    CASE c = "TUIInEarBehindEarDataset" ->
            IF Len(files) # 3 THEN Raise("ValueError")
            ELSE Ok([j \in 1..Len(cfgs) |->
                       Rec(Name(files[1], cfgs[j]), 2, PyInt(22050), 44100)]
                    \o [j \in 1..Len(cfgs) |->
                       Rec(Name(files[2], cfgs[j]), 2, PyInt(44100), 44100)]
                    \o [j \in 1..Len(cfgs) |->
                       Rec(Name(files[3], cfgs[j]), 2, PyInt(22050), 44100)])
      [] c = "BellVarechoicDataset" ->
            Ok([j \in 1..(4 * Len(files)) |->
                  Rec(Name(files[((j - 1) % Len(files)) + 1],
                           <<(j - 1) \div Len(files)>>),
                      1, PyInt(8192), 10000)])
      [] c = "FOAIRDataset" ->
            LET is_mat(f) == match(f, <<"*.mat">>)
                is_wav(f) == match(f, <<"*.wav">>)
                mats == SelectSeq(files, is_mat)
                wavs == SelectSeq(files, is_wav)
                mat_irs == Collect([j \in 1..Len(mats) |->
                              FileRecords(c, mats[j], At(r, t, mats[j]))])
                wav_irs == Collect([j \in 1..Len(wavs) |->
                              FileRecords(c, wavs[j], At(r, t, wavs[j]))])
            IN  Collect(<<mat_irs, wav_irs>>)
      [] OTHER ->
            Collect([j \in 1..Len(files) |->
                       FileRecords(c, files[j], At(r, t, files[j]))])

----------------------------------------------------------------------------
(* The instance.  Its attributes are threaded through the methods as one   *)
(* record S; a method gives back the attributes after it and its outcome.  *)

\* A lazily set attribute: hasattr(self, ...) is its field "set".
Unset == [set |-> FALSE, val |-> <<>>]
Set(v) == [set |-> TRUE, val |-> v]

Count(n, key) == IF key \in DOMAIN n THEN n[key] ELSE 0

\* A cached() that never looks the key up: it computes and stores anew.
cachedRecompute(S, key, computed) ==
    LET S1 == [S EXCEPT !.n_compute = (key :> (Count(@, key) + 1)) @@ @]
    IN  IF computed.ok
        THEN LET obj == [id |-> S.nobj + 1, val |-> computed.val]
             IN  [s |-> [S1 EXCEPT !.cache = (key :> obj) @@ @, !.nobj = @ + 1],
                  r |-> Ok(obj)]
        ELSE [s |-> S1, r |-> computed]

\* A cached() that computes on a miss and stores nothing.
cachedNoStore(S, key, computed) ==
    IF key \in DOMAIN S.cache THEN [s |-> S, r |-> Ok(S.cache[key])]
    ELSE LET S1 == [S EXCEPT !.n_compute = (key :> (Count(@, key) + 1)) @@ @]
         IN  IF computed.ok
             THEN [s |-> [S1 EXCEPT !.nobj = @ + 1],
                   r |-> Ok([id |-> S.nobj + 1, val |-> computed.val])]
             ELSE [s |-> S1, r |-> computed]

\* CacheMixin.cached(key, func): computed is what func() gives if called.
\* Every object func returns is a new object, with an identity of its own.
cached(S, key, computed) ==
    IF key \in DOMAIN S.cache THEN [s |-> S, r |-> Ok(S.cache[key])]
    ELSE LET S1 == [S EXCEPT !.n_compute = (key :> (Count(@, key) + 1)) @@ @]
         IN  IF computed.ok
             THEN LET obj == [id |-> S.nobj + 1, val |-> computed.val]
                  IN  [s |-> [S1 EXCEPT !.cache = (key :> obj) @@ @,
                                        !.nobj = @ + 1],
                       r |-> Ok(obj)]
             ELSE [s |-> S1, r |-> computed]

\* A _populate_files_list without the hasattr guard: it scans on every call.
_populate_files_listRescan(S) ==
    [S EXCEPT !.files = Set(_list_files(cls, root, fs)),
              !.n_list_files = @ + 1]

\* FileIRDataset._populate_files_list
_populate_files_list(S) ==
    IF S.files.set THEN S
    ELSE [S EXCEPT !.files = Set(_list_files(cls, root, fs)),
                   !.n_list_files = @ + 1]

\* FileIRDataset.list_files
list_files(S) ==
    LET result(S1) == [s |-> S1, r |-> Ok(S1.files.val)]
    IN  result(_populate_files_list(S))

\* A _populate_irs_list that makes the attribute before it probes: a probe
\* that raises leaves an empty Index behind.
_populate_irs_listPartial(S) ==
    LET store(S1, built) ==
            IF built.ok
            THEN [s |-> [S1 EXCEPT !.irs = Set(built.val)], r |-> Ok(<<>>)]
            ELSE [s |-> [S1 EXCEPT !.irs = Set(<<>>)], r |-> built]
        build(S1) == store(S1, _list_irs(cls, S1.files.val, root, fs))
    IN  IF S.irs.set THEN [s |-> S, r |-> Ok(<<>>)]
        ELSE build([_populate_files_list(S) EXCEPT !.n_list_irs = @ + 1])

\* A _populate_irs_list without the hasattr guard: it probes on every call.
_populate_irs_listRebuild(S) ==
    LET store(S1, built) ==
            IF built.ok
            THEN [s |-> [S1 EXCEPT !.irs = Set(built.val)], r |-> Ok(<<>>)]
            ELSE [s |-> S1, r |-> built]
        build(S1) == store(S1, _list_irs(cls, S1.files.val, root, fs))
    IN  build([_populate_files_list(S) EXCEPT !.n_list_irs = @ + 1])

\* FileIRDataset._populate_irs_list; _list_irs starts with self.list_files().
_populate_irs_list(S) ==
    LET store(S1, built) ==
            IF built.ok
            THEN [s |-> [S1 EXCEPT !.irs = Set(built.val)], r |-> Ok(<<>>)]
            ELSE [s |-> S1, r |-> built]
        build(S1) == store(S1, _list_irs(cls, S1.files.val, root, fs))
    IN  IF S.irs.set THEN [s |-> S, r |-> Ok(<<>>)]
        ELSE build([_populate_files_list(S) EXCEPT !.n_list_irs = @ + 1])

\* FileIRDataset.list_irs
list_irs(S) ==
    LET result(p) == IF p.r.ok THEN [s |-> p.s, r |-> Ok(p.s.irs.val)] ELSE p
    IN  result(_populate_irs_list(S))

\* FileIRDataset.__len__
__len__(S) ==
    LET result(l) == IF l.r.ok THEN [s |-> l.s, r |-> Ok(Len(l.r.val))] ELSE l
    IN  result(list_irs(S))

\* a[i] on an axis of length n: Python accepts -n <= i < n.
InRange(i, n) == -n <= i /\ i < n

\* _get_ir of class c for the item name.
_get_ir(c, S, name) ==
    LET x == At(root, fs, name.f)
        pure(r) == [s |-> S, r |-> r]
        \* the container name.f has been opened and parsed
        loaded(S1, r) ==
            [s |-> [S1 EXCEPT !.n_open = (name.f :> (Count(@, name.f) + 1)) @@ @],
             r |-> r]
    IN CASE c \in {"WavDataset", "OpenAIRDataset"} ->
            pure(Lib("soundfile",
                     IF x.k # "wav" THEN Raise("RuntimeError")
                     ELSE IF x.ch = 1 THEN Ok(Arr(<<1, x.n>>))
                     ELSE Ok(Arr(<<x.ch, x.n>>))))
         [] c = "FlacDataset" ->
            pure(Lib("librosa",
                     IF x.k # "wav" THEN Raise("NoBackendError")
                     ELSE IF x.ch = 1 THEN Ok(Arr(<<1, x.n>>))
                     ELSE Ok(Arr(<<x.ch, x.n>>))))
         [] c = "FOAIRDataset" ->
            IF name.sub[1] = -1
            THEN pure(Lib("soundfile",
                          IF x.k # "wav" THEN Raise("RuntimeError")
                          ELSE IF x.ch = 1 THEN Ok(Arr(<<x.n>>))
                          ELSE Ok(Arr(<<x.ch, x.n>>))))
            \* scipy_io.loadmat is looked up before cached() is entered
            ELSE IF "scipy" \in missing THEN pure(Lib("scipy", Ok(<<>>)))
            ELSE LET m == cached(S, <<"loadmat", name.f>>,
                                 IF x.k = "matLR" THEN Ok(x) ELSE Raise("OSError"))
                     got(S1) ==
                        IF ~InRange(name.sub[1], m.r.val.val.cols)
                        THEN [s |-> S1, r |-> Raise("IndexError")]
                        ELSE [s |-> S1,
                              r |-> Ok(Tup(<<Arr(<<m.r.val.val.rows>>),
                                             Arr(<<m.r.val.val.rowsR>>)>>))]
                 IN  IF ~m.r.ok THEN m
                     ELSE IF m.s.nobj # S.nobj
                     THEN got(loaded(m.s, m.r).s)
                     ELSE got(m.s)
         [] c = "KEMARDataset" ->
            IF "scipy" \in missing \/ x.k # "brir"
            THEN pure(Lib("scipy", Raise("OSError")))
            ELSE loaded(S, IF Cardinality({j \in 1..Len(x.labels) :
                                             x.labels[j] = name.sub[1]}) # 1
                           THEN Raise("ValueError")
                           ELSE Ok(Arr(<<2, x.rows>>)))
         [] c \in {"MIRDDataset", "BellVarechoicDataset"} ->
            IF "scipy" \in missing \/ x.k # "mat"
            THEN pure(Lib("scipy", Raise("OSError")))
            ELSE loaded(S, IF ~InRange(name.sub[1], x.cols)
                           THEN Raise("IndexError")
                           ELSE Ok(Arr(<<1, x.rows>>)))
         [] c = "TUIInEarBehindEarDataset" ->
            IF "scipy" \in missing \/ x.k # "tui"
            THEN pure(Lib("scipy", Raise("OSError")))
            ELSE loaded(S, IF name.sub[1] \notin {"inear", "btear"}
                           THEN Raise("AttributeError")
                           ELSE IF ~InRange(name.sub[2], x.nidx)
                           THEN Raise("IndexError")
                           ELSE Ok(Tup(<<Arr(<<x.n>>), Arr(<<x.n>>)>>)))
         [] c = "IOSRListeningRoomsDataset" ->
            \* the SOFA file is opened before cached() is entered
            IF "pysofaconventions" \in missing
            THEN pure(Lib("pysofaconventions", Ok(<<>>)))
            ELSE IF x.k # "sofa" THEN pure(Raise("OSError"))
            ELSE LET d == cached(S, name.f, Ok(Arr(<<x.M, x.R, x.N>>)))
                     sh == d.r.val.val.shape
                 IN  loaded(d.s, IF ~InRange(name.sub[1], sh[1])
                                 THEN Raise("IndexError")
                                 ELSE Ok(Arr(<<sh[2], sh[3]>>)))
         [] c = "RWCPDataset" ->
            \* np.memmap refuses a size that is no multiple of the item
            \* size; np.fromfile reads the whole items.  The maximum of no
            \* items raises.
            pure(IF x.k # "raw" THEN Raise("FileNotFoundError")
                 ELSE IF use_memmap /\ x.size % itemsize # 0
                 THEN Raise("ValueError")
                 ELSE IF x.size \div itemsize = 0 THEN Raise("ValueError")
                 ELSE Ok(Arr(<<1, x.size \div itemsize>>)))

\* A __getitem__ that returns what _get_ir gives, unvalidated.
__getitem__NoCheck(S, name) ==
    LET get(p) == IF ~p.r.ok THEN p ELSE _get_ir(cls, p.s, name)
    IN  get(_populate_irs_list(S))

\* FileIRDataset.__getitem__
__getitem__(S, name) ==
    LET result(g, chk) == IF chk.ok THEN g ELSE [s |-> g.s, r |-> chk]
        check(g) == IF ~g.r.ok THEN g ELSE result(g, check_nonmono(g.r.val))
        get(p) == IF ~p.r.ok THEN p ELSE check(_get_ir(cls, p.s, name))
    IN  get(_populate_irs_list(S))

\* What the overridden _getall of class c makes of the one file f with
\* content x: the items it yields, in order, each a pair (name, ir); or the
\* exception that loadmat raises.
FileItems(c, f, x) ==
    CASE "scipy" \in missing -> <<Lib("scipy", Ok(<<>>))>>
      [] c = "KEMARDataset" ->
            IF x.k # "brir" THEN <<Raise("OSError")>>
            ELSE [j \in 1..Len(x.labels) |->
                    Ok(<<Name(f, <<x.labels[j]>>), Arr(<<2, x.rows>>)>>)]
      [] c = "MIRDDataset" ->
            IF x.k # "mat" THEN <<Raise("OSError")>>
            ELSE [j \in 1..x.cols |->
                    Ok(<<Name(f, <<j - 1>>), Arr(<<1, x.rows>>)>>)]
      [] c = "TUIInEarBehindEarDataset" ->
            IF x.k # "tui" THEN <<Raise("OSError")>>
            ELSE [j \in 1..(2 * x.nidx) |->
                    Ok(<<Name(f, <<IF j <= x.nidx THEN "inear" ELSE "btear",
                                   (j - 1) % x.nidx>>),
                         Tup(<<Arr(<<x.n>>), Arr(<<x.n>>)>>)>>)]

\* The overridden _getall: what the generator does step by step, over
\* self.list_files() = files.
RECURSIVE _getallBatched(_, _)
_getallBatched(c, files) ==
    IF files = <<>> THEN <<>>
    ELSE FileItems(c, Head(files), At(root, fs, Head(files)))
         \o _getallBatched(c, Tail(files))

\* The body of the loop of getall on one item of _getall:
\* "for name, sr, ir in ...: check_nonmono(ir); yield name, sr, ir".
getall_step(item) ==
    IF Len(item) # 3 THEN Raise("ValueError: not enough values to unpack")
    ELSE LET chk == check_nonmono(item[3])
         IN  IF chk.ok THEN Ok(<<item[1], item[2], item[3]>>) ELSE chk

\* An enumeration that ended after yielding the items: by exhaustion, or
\* by the exception e.
Ended(yielded, e) == [ok |-> e = "none", val |-> yielded, err |-> e]

\* getall over an overridden _getall, run until it ends.
RECURSIVE Drain(_, _)
Drain(steps, yielded) ==
    IF steps = <<>> THEN Ended(yielded, "none")
    ELSE IF ~Head(steps).ok THEN Ended(yielded, Head(steps).err)
    ELSE LET y == getall_step(Head(steps).val)
         IN  IF ~y.ok THEN Ended(yielded, y.err)
             ELSE Drain(Tail(steps), Append(yielded, y.val))

\* getall over the default _getall, ((name, sr, self[name]) for name, *_, sr
\* in self.list_irs()), run until it ends; recs are the records left.
RECURSIVE DrainDefault(_, _, _)
DrainDefault(S, recs, yielded) ==
    LET step(g, y) ==
            IF ~y.ok THEN [s |-> g.s, r |-> Ended(yielded, y.err)]
            ELSE DrainDefault(g.s, Tail(recs), Append(yielded, y.val))
        item(g) ==
            IF ~g.r.ok THEN [s |-> g.s, r |-> Ended(yielded, g.r.err)]
            ELSE step(g, getall_step(<<Head(recs).name, Head(recs).sr, g.r.val>>))
    IN  IF recs = <<>> THEN [s |-> S, r |-> Ended(yielded, "none")]
        ELSE item(__getitem__(S, Head(recs).name))

\* FileIRDataset.getall, iterated to its end: r.val are the items yielded,
\* r.err the exception that ended it, if one did.
getall(S) ==
    LET run(p) ==
            IF ~p.r.ok THEN [s |-> p.s, r |-> Ended(<<>>, p.r.err)]
            ELSE IF cls \in BatchedClasses
            THEN [s |-> p.s, r |-> Drain(_getallBatched(cls, p.s.files.val), <<>>)]
            ELSE DrainDefault(p.s, p.s.irs.val, <<>>)
    IN  run(_populate_irs_list(S))

----------------------------------------------------------------------------
(* The state machine.                                                      *)

Self ==
    [files |-> _files_list, irs |-> _irs_list, cache |-> cache, nobj |-> nobj,
     n_compute |-> n_compute, n_open |-> n_open,
     n_list_files |-> n_list_files,
     n_list_irs |-> n_list_irs]

\* The names a caller may pass to __getitem__: those of the Index, and
\* others of the same type.
Subs(c) ==
    CASE c \in {"WavDataset", "FlacDataset", "OpenAIRDataset", "RWCPDataset"} ->
            {<<>>}
      [] c = "FOAIRDataset" -> {<<-1>>, <<0>>, <<1>>, <<2>>}
      [] c = "KEMARDataset" -> {<<"L">>, <<"S">>, <<"X">>}
      [] c = "MIRDDataset" -> {<<0>>, <<7>>, <<8>>}
      [] c = "TUIInEarBehindEarDataset" ->
            {<<"inear", 0>>, <<"btear", 31>>, <<"inear", 32>>}
      [] c = "BellVarechoicDataset" -> {<<0>>, <<3>>, <<4>>}
      [] c = "IOSRListeningRoomsDataset" -> {<<0>>, <<1>>, <<2>>}

ArgNames ==
    {Name(root \o rel, sub) : rel \in DOMAIN FileChoices(cls), sub \in Subs(cls)}

\* The keys and compute functions a caller may pass to cached().
UserKeys == {<<"user", "k1">>, <<"user", "k2">>}
UserComputes == {Ok("v1"), Ok("v2"), Raise("RuntimeError")}

\* The sets of libraries that may be missing where a dataset of class c is
\* used: none, or one; a class with a Decode Cache is tried without each
\* of the libraries that its methods name.
MissingChoices(c) ==
    {{}} \cup {{l} : l \in IF c = "FOAIRDataset" THEN {"scipy", "soundfile"}
                          ELSE IF c = "IOSRListeningRoomsDataset"
                          THEN {"pysofaconventions"}
                          ELSE Libs}

Init ==
    /\ cls \in Classes
    /\ root \in Roots(cls)
    /\ use_memmap \in (IF cls = "RWCPDataset" THEN BOOLEAN ELSE {TRUE})
    /\ missing \in MissingChoices(cls)
    /\ fs \in Trees(cls)
    /\ root_exists \in BOOLEAN
    /\ ~root_exists => \A p \in DOMAIN fs : fs[p] = Absent
    /\ _files_list = Unset
    /\ _irs_list = Unset
    /\ cache = <<>>
    /\ nobj = 0
    /\ n_list_files = 0
    /\ n_list_irs = 0
    /\ n_compute = <<>>
    /\ n_open = <<>>
    /\ ncalls = 0
    /\ nchanges = 0
    /\ ret = [op |-> "init", arg |-> <<>>, ok |-> TRUE, val |-> <<>>,
              err |-> "none", scanned |-> FALSE, opened |-> FALSE,
              built |-> FALSE]

\* A call ends: the attributes are as the method left them, and the caller
\* has its result or its exception.  scanned, built and opened record
\* whether the call ran _list_files, ran _list_irs, loaded a container.
Return(op, arg, c) ==
    /\ _files_list' = c.s.files
    /\ _irs_list' = c.s.irs
    /\ cache' = c.s.cache
    /\ nobj' = c.s.nobj
    /\ n_compute' = c.s.n_compute
    /\ n_open' = c.s.n_open
    /\ n_list_files' = c.s.n_list_files
    /\ n_list_irs' = c.s.n_list_irs
    /\ ret' = [op |-> op, arg |-> arg, ok |-> c.r.ok, val |-> c.r.val,
               err |-> c.r.err,
               scanned |-> c.s.n_list_files > n_list_files,
               opened |-> c.s.n_open # n_open,
               built |-> c.s.n_list_irs > n_list_irs]
    /\ ncalls' = ncalls + 1
    /\ UNCHANGED <<cls, root, use_memmap, missing, root_exists, fs, nchanges>>

ListFiles ==
    /\ ncalls < MaxCalls
    /\ Return("list_files", <<>>, list_files(Self))

ListIrs ==
    /\ ncalls < MaxCalls
    /\ Return("list_irs", <<>>, list_irs(Self))

Len_ ==
    /\ ncalls < MaxCalls
    /\ Return("__len__", <<>>, __len__(Self))

GetItem ==
    /\ ncalls < MaxCalls
    /\ \E name \in ArgNames : Return("__getitem__", name, __getitem__(Self, name))

GetAll ==
    /\ ncalls < MaxCalls
    /\ Return("getall", <<>>, getall(Self))

Cached ==
    /\ ncalls < MaxCalls
    /\ cls \in CachingClasses
    /\ \E key \in UserKeys, computed \in UserComputes :
          Return("cached", key, cached(Self, key, computed))

\* The environment creates, replaces or deletes one file under the root;
\* it creates the root directory with the first file.
ChangeFile ==
    /\ nchanges < MaxChanges
    /\ \E p \in DOMAIN fs :
          \E x \in FileChoices(cls)[p] \cup {Absent} :
             /\ x # fs[p]
             /\ fs' = [fs EXCEPT ![p] = x]
    /\ root_exists' = TRUE
    /\ nchanges' = nchanges + 1
    /\ UNCHANGED <<cls, root, use_memmap, missing, _files_list, _irs_list,
                   cache, nobj, n_list_files, n_list_irs, n_compute, n_open,
                   ncalls, ret>>

Next ==
    \/ ListFiles
    \/ ListIrs
    \/ Len_
    \/ GetItem
    \/ GetAll
    \/ Cached
    \/ ChangeFile

Spec == Init /\ [][Next]_vars

----------------------------------------------------------------------------
(* Properties.                                                             *)

\* The names of the records of an Index.
Names(irs) == {irs[i].name : i \in 1..Len(irs)}

\* The path f relative to the root.
Rel(f) == SubSeq(f, Len(root) + 1, Len(f))

\* x is a two-dimensional buffer of fewer than ten channels.
Valid(x) ==
    /\ shape(x).ok
    /\ Len(shape(x).val) = 2
    /\ shape(x).val[1] < 10

\* Every name of the Index, as list_irs() gives it now, can be fetched now.
AllItemsDecode ==
    LET l == list_irs(Self).r
    IN  l.ok /\ \A i \in 1..Len(l.val) : __getitem__(Self, l.val[i].name).r.ok

\* The step is a call D[name] that ends with an Index in which name is not.
UnknownNameStep ==
    /\ ncalls' = ncalls + 1
    /\ ret'.op = "__getitem__"
    /\ _irs_list'.set
    /\ ret'.arg \notin Names(_irs_list'.val)

\* C1: len(D) is the length of the Index, and an enumeration getall() of a
\* dataset whose every indexed item can be fetched runs to exhaustion and
\* yields exactly len(D) items.
C1_CountParity ==
    /\ (ret.op = "__len__" /\ ret.ok) => ret.val = Len(_irs_list.val)
    /\ (ret.op = "getall" /\ AllItemsDecode) =>
          /\ ret.ok
          /\ Len(ret.val) = Len(list_irs(Self).r.val)

\* C2: the i-th item that getall() yields is a triple whose name and sample
\* rate are those of the i-th record of the Index, and the enumeration of a
\* dataset whose every indexed item can be fetched follows the whole Index,
\* element for element, whether or not the class overrides _getall.
C2_EnumerationFollowsIndex ==
    (ret.op = "getall" /\ list_irs(Self).r.ok) =>
        LET irs == list_irs(Self).r.val
        IN  /\ \A i \in 1..Len(ret.val) :
                  /\ i <= Len(irs)
                  /\ ret.val[i][1] = irs[i].name
                  /\ ret.val[i][2] = irs[i].sr
            /\ AllItemsDecode =>
                  [i \in 1..Len(ret.val) |-> <<ret.val[i][1], ret.val[i][2]>>]
                  = [i \in 1..Len(irs) |-> <<irs[i].name, irs[i].sr>>]

\* C3, for the raw-binary adapter it names: while the files are as they
\* were, for every record (name, ch, n, sr) of the Index, ch and n are whole
\* numbers with ch < 10 and D[name] returns a buffer of shape (ch, n).
C3_ShapeMatchesIndex ==
    (cls = "RWCPDataset" /\ ret.op = "__getitem__" /\ _irs_list.set
     /\ nchanges = 0) =>
        \A i \in 1..Len(_irs_list.val) :
            LET rec == _irs_list.val[i]
            IN  rec.name = ret.arg =>
                    /\ IsIntegral(rec.n)
                    /\ rec.ch < 10
                    /\ ret.ok
                    /\ shape(ret.val) = Ok(<<rec.ch, rec.n.whole>>)

\* C4, as the specification has it: D[name] with a name that is not in the
\* Index raises a lookup error (KeyError or IndexError) and leaves the File
\* List, the Index and the Decode Cache as they were.
C4_UnknownNameIsLookupError ==
    [][UnknownNameStep =>
          /\ ~ret'.ok
          /\ ret'.err \in {"KeyError", "IndexError"}
          /\ _files_list' = _files_list
          /\ _irs_list' = _irs_list
          /\ cache' = cache]_vars

\* C4, amended: D[name] with a name that is not in the Index hands the name
\* to the decoder and returns the validated buffer exactly when the decoder
\* gives one that passes the shape check; the call leaves a File List and an
\* Index that were populated as they were, and changes or removes no entry
\* of the Decode Cache.
C4_UnknownNameGoesToDecoder ==
    [][UnknownNameStep =>
          /\ _files_list.set => _files_list' = _files_list
          /\ _irs_list.set => _irs_list' = _irs_list
          /\ \A k \in DOMAIN cache : k \in DOMAIN cache' /\ cache'[k] = cache[k]
          /\ ret'.ok => Valid(ret'.val)
          /\ ret'.ok <=> (LET d == _get_ir(cls, Self, ret'.arg).r
                          IN  d.ok /\ Valid(d.val))]_vars

\* A call D[name] with a name that is not in the Index has returned a buffer.
C4_Witness ==
    /\ ret.op = "__getitem__"
    /\ ret.ok
    /\ _irs_list.set
    /\ ret.arg \notin Names(_irs_list.val)

\* C5, as the specification has it: the File List is in sorted lexicographic
\* path order.
C5_FileListSorted ==
    _files_list.set =>
        \A i, j \in 1..Len(_files_list.val) :
            i < j => PathLess(_files_list.val[i], _files_list.val[j])

\* The include patterns of the class that select the file f.
PatternsOf(f) ==
    {k \in 1..Len(file_patterns(cls)) : GlobSelects(Rel(f), file_patterns(cls)[k])}

\* The files of the list l come pattern by pattern, in the order the
\* patterns are declared, and sorted within one pattern.
GroupedSorted(l) ==
    /\ \A i \in 1..Len(l) : PatternsOf(l[i]) # {}
    /\ \A i, j \in 1..Len(l) :
          i < j =>
             \E a \in PatternsOf(l[i]), b \in PatternsOf(l[j]) :
                \/ a < b
                \/ a = b /\ PathLess(l[i], l[j])

\* C5, amended: the File List holds, for each include pattern in the order
\* of declaration, the matches of that pattern in sorted path order (the
\* class that overrides the scan holds its three fixed paths in the order it
\* names them); list_files() returns that list, and once made the list
\* never changes.
C5_SortedWithinPattern ==
    /\ [](_files_list.set =>
             IF cls = "BellVarechoicDataset"
             THEN _files_list.val = <<root \o <<"IR_00.mat">>,
                                      root \o <<"IR_43.mat">>,
                                      root \o <<"IR_100.mat">>>>
             ELSE GroupedSorted(_files_list.val))
    /\ [](ret.op = "list_files" => ret.ok /\ ret.val = _files_list.val)
    /\ [][_files_list.set => _files_list' = _files_list]_vars

\* list_files() has returned the memoized list of two patterns' files,
\* which is not sorted as a whole and which a new scan would not give.
C5_Witness ==
    /\ ret.op = "list_files"
    /\ ~ret.scanned
    /\ Len(ret.val) >= 2
    /\ ~ PathLess(ret.val[1], ret.val[2])
    /\ ret.val # _list_files(cls, root, fs)

\* C6: while the files are as they were at the scan, a file whose path
\* relative to the root matches an exclude pattern is not in the File List,
\* and a file that an include pattern selects and whose path relative to the
\* root matches no exclude pattern is in it.
C6_ExcludeRelativeToRoot ==
    (_files_list.set /\ nchanges = 0 /\ cls # "BellVarechoicDataset") =>
        \A rel \in DOMAIN fs :
            LET excluded == \E i \in 1..Len(exclude_patterns(cls)) :
                               match(rel, exclude_patterns(cls)[i])
                included == \E i \in 1..Len(file_patterns(cls)) :
                               GlobSelects(rel, file_patterns(cls)[i])
                listed == \E i \in 1..Len(_files_list.val) :
                             _files_list.val[i] = root \o rel
            IN  fs[rel] # Absent =>
                    /\ excluded => ~listed
                    /\ (included /\ ~excluded) => listed

\* C7, as the specification has it: for every key, compute is invoked
\* exactly once, and a call of cached() returns the object stored for the
\* key.
C7_ComputeOncePerKey ==
    /\ \A k \in DOMAIN n_compute : n_compute[k] = 1
    /\ (ret.op = "cached" /\ ret.ok) =>
          ret.arg \in DOMAIN cache /\ ret.val = cache[ret.arg]

\* C7, amended: a key that has an entry keeps it, the identical object, and
\* compute is never invoked for it again; an entry is made by one invocation
\* of compute; a call of cached() that returns gives the object stored for
\* its key.  (A compute that raises stores nothing, so the next call with
\* the key invokes compute again.)
C7_EntryComputedOnce ==
    [][/\ \A k \in DOMAIN cache :
             /\ k \in DOMAIN cache'
             /\ cache'[k] = cache[k]
             /\ Count(n_compute', k) = Count(n_compute, k)
       /\ \A k \in DOMAIN cache' \ DOMAIN cache :
             Count(n_compute', k) = Count(n_compute, k) + 1
       /\ (ncalls' = ncalls + 1 /\ ret'.op = "cached" /\ ret'.ok) =>
             ret'.arg \in DOMAIN cache' /\ ret'.val = cache'[ret'.arg]]_vars

\* Two calls of cached() with one key, and nothing else, have been made; the
\* second returned the object of the first without invoking compute.
C7_Witness ==
    /\ ncalls = 2
    /\ ~_files_list.set
    /\ ret.op = "cached"
    /\ ret.ok
    /\ DOMAIN n_compute = {ret.arg}
    /\ n_compute[ret.arg] = 1
    /\ ret.val = cache[ret.arg]

\* C8: while the files are as they were, list_irs() of the raw-binary
\* adapter gives one record per file with one channel, the sample rate of
\* the class and the whole number size / width of samples when every file's
\* size is a multiple of the sample width, and raises when one is not.
C8_BinarySampleCount ==
    (cls = "RWCPDataset" /\ ret.op = "list_irs" /\ nchanges = 0) =>
        LET files == _files_list.val
            size(i) == At(root, fs, files[i]).size
        IN  IF \A i \in 1..Len(files) : size(i) % 4 = 0
            THEN /\ ret.ok
                 /\ Len(ret.val) = Len(files)
                 /\ \A i \in 1..Len(files) :
                       /\ ret.val[i].name = Name(files[i], <<>>)
                       /\ ret.val[i].ch = 1
                       /\ IsIntegral(ret.val[i].n)
                       /\ ret.val[i].n.whole = size(i) \div 4
                       /\ ret.val[i].sr = 48000
            ELSE ~ret.ok

\* C9, as the specification has it: the scan of the file system and the
\* metadata probing each run at most once per dataset object.
C9_ProbeOnce == n_list_files <= 1 /\ n_list_irs <= 1

\* C9, amended: the scan of the file system runs at most once per dataset
\* object; once the File List is populated it is never scanned for or
\* changed again, and once the Index is populated the metadata probing never
\* runs again and the Index never changes.  (A probing that raises stores
\* nothing, so the next call that needs the Index probes again.)
C9_MemoizedOncePopulated ==
    /\ [](n_list_files <= 1)
    /\ [][_files_list.set =>
             /\ _files_list' = _files_list
             /\ n_list_files' = n_list_files]_vars
    /\ [][_irs_list.set =>
             /\ _irs_list' = _irs_list
             /\ n_list_irs' = n_list_irs]_vars

\* list_irs() has returned the Index without a scan and without probing,
\* after the one scan and the one probing of an earlier call.
C9_Witness ==
    /\ ret.op = "list_irs"
    /\ ret.ok
    /\ ~ret.scanned
    /\ ~ret.built
    /\ n_list_files = 1
    /\ n_list_irs = 1

\* C10: every buffer that D[name] returns and every buffer that getall()
\* yields is two-dimensional with fewer than ten channels.
C10_ReturnedBuffersValid ==
    /\ (ret.op = "__getitem__" /\ ret.ok) => Valid(ret.val)
    /\ ret.op = "getall" => \A i \in 1..Len(ret.val) : Valid(ret.val[i][3])

\* An enumeration has yielded validated buffers and then raised on a buffer
\* that fails the shape check.
C10_Witness ==
    /\ ret.op = "getall"
    /\ Len(ret.val) >= 1
    /\ ret.err = "AssertionError"

\* The libraries that the methods of class c name.
Uses(c) ==
    CASE c \in {"WavDataset", "OpenAIRDataset"} -> {"soundfile"}
      [] c = "FlacDataset" -> {"librosa"}
      [] c = "FOAIRDataset" -> {"scipy", "soundfile"}
      [] c \in {"KEMARDataset", "MIRDDataset", "TUIInEarBehindEarDataset",
                "BellVarechoicDataset"} -> {"scipy"}
      [] c = "IOSRListeningRoomsDataset" -> {"pysofaconventions"}
      [] c = "RWCPDataset" -> {}

\* The library that class c decodes the item name with, if any.
DecodesWith(c, name) ==
    CASE c = "FOAIRDataset" ->
            IF name.sub = <<-1>> THEN {"soundfile"} ELSE {"scipy"}
      [] OTHER -> Uses(c)

\* The library that class c probes every file of its File List with, if
\* it probes them with one library.
ProbesWith(c) ==
    IF c \in {"WavDataset", "OpenAIRDataset", "FlacDataset",
              "IOSRListeningRoomsDataset"}
    THEN Uses(c) ELSE {}

\* C11: whatever library is missing, an ImportError naming a library is
\* raised only by an operation of a class that uses that library, which is
\* missing, and never by list_files() or cached(); a D[name] that reaches
\* the decoder of a missing library, and a list_irs() that probes a file
\* with a missing library, raise the ImportError naming it.
C11_ImportErrorOnlyOnUse ==
    /\ \A l \in Libs :
          ret.err = ImportError(l) =>
             /\ l \in missing
             /\ l \in Uses(cls)
             /\ ret.op \in {"list_irs", "__len__", "__getitem__", "getall"}
    /\ (ret.op = "__getitem__" /\ _irs_list.set) =>
          \A l \in DecodesWith(cls, ret.arg) \cap missing :
             ret.err = ImportError(l)
    /\ (ret.op = "list_irs" /\ _files_list.val # <<>>) =>
          \A l \in ProbesWith(cls) \cap missing : ret.err = ImportError(l)

\* Without scipy, a dataset whose Index needs no library has built its
\* Index of several records, and D[name] has raised the ImportError that
\* names scipy.
C11_Witness ==
    /\ missing = {"scipy"}
    /\ ret.op = "__getitem__"
    /\ ret.err = ImportError("scipy")
    /\ _irs_list.set
    /\ Len(_irs_list.val) > 0
    /\ ~ret.built

\* C12: for every class, list_files() of a dataset whose root directory
\* does not exist returns the empty list and raises nothing.
C12_MissingRootEmptyList ==
    (ret.op = "list_files" /\ ~root_exists) => ret.ok /\ ret.val = <<>>

\* The classes that load a MATLAB container in _get_ir without a cache.
UncachedContainerClasses ==
    {"KEMARDataset", "MIRDDataset", "TUIInEarBehindEarDataset",
     "BellVarechoicDataset"}

\* The step is a call D[name] that got as far as the decoder.
DecoderStep ==
    /\ ncalls' = ncalls + 1
    /\ ret'.op = "__getitem__"
    /\ _irs_list'.set

\* C13, as the specification has it: over the calls D[name], no container
\* file is loaded more than once.
C13_ContainerLoadedOnce == \A f \in DOMAIN n_open : n_open[f] <= 1

\* C13, amended: FOAIRDataset loads no .mat file more than once; the SOFA
\* adapter decodes the data of its file at most once, but opens the file in
\* every D[name] that finds it readable; the MATLAB adapters without a
\* Decode Cache load the container in every D[name] that finds it readable.
C13_OnlyCachedDecodesShared ==
    /\ [](cls = "FOAIRDataset" => \A f \in DOMAIN n_open : n_open[f] <= 1)
    /\ [](cls = "IOSRListeningRoomsDataset" =>
             \A k \in DOMAIN n_compute \ UserKeys : n_compute[k] <= 1)
    /\ [][(DecoderStep /\ missing = {}) =>
             LET f == ret'.arg.f
                 readable == At(root, fs, f) \notin {Absent, Bad}
             IN  /\ (cls \in UncachedContainerClasses /\ readable) =>
                        Count(n_open', f) = Count(n_open, f) + 1
                 /\ (cls = "IOSRListeningRoomsDataset" /\ readable) =>
                        Count(n_open', f) = Count(n_open, f) + 1]_vars

\* D[name] has returned a sub-item of a .mat file without loading the file,
\* which the one load of an earlier call had decoded.
C13_Witness ==
    /\ cls = "FOAIRDataset"
    /\ ret.op = "__getitem__"
    /\ ret.ok
    /\ ret.arg.sub # <<-1>>
    /\ ~ret.opened
    /\ Count(n_open, ret.arg.f) = 1

\* C14: a populated Index implies a populated File List; a call that scans
\* stores the complete result of the scan, and a call that does not scan
\* leaves the File List as it was; a call that probes stores the complete
\* Index when the probing returns and stores nothing, raising the error of
\* the probe, when a probe raises; a call that does not probe leaves the
\* Index as it was.
C14_NoPartialPopulation ==
    /\ [](_irs_list.set => _files_list.set)
    /\ [](~_files_list.set => _files_list = Unset)
    /\ [](~_irs_list.set => _irs_list = Unset)
    /\ [][IF n_list_files' > n_list_files
          THEN ~_files_list.set /\ _files_list' = Set(_list_files(cls, root, fs))
          ELSE _files_list' = _files_list]_vars
    /\ [][IF n_list_irs' > n_list_irs
          THEN LET b == _list_irs(cls, _files_list'.val, root, fs)
               IN  /\ ~_irs_list.set
                   /\ _files_list'.set
                   /\ IF b.ok THEN _irs_list' = Set(b.val)
                      ELSE /\ _irs_list' = Unset
                           /\ ~ret'.ok
                           /\ ret'.err = b.err
          ELSE _irs_list' = _irs_list]_vars

\* list_irs() has raised in the probe of a later file, after the probe of
\* the first file of the File List had returned, and no Index is stored.
C14_Witness ==
    /\ ret.op = "list_irs"
    /\ ret.built
    /\ ~ret.ok
    /\ ~_irs_list.set
    /\ _files_list.set
    /\ Len(_files_list.val) >= 2
    /\ cls \notin {"TUIInEarBehindEarDataset", "BellVarechoicDataset"}
    /\ FileRecords(cls, _files_list.val[1],
                   At(root, fs, _files_list.val[1])).ok

====
